---- MODULE Spec2Model ----
(***************************************************************************)
(* Asynchronous shader compilation, linking and reflection of the OpenGL   *)
(* backend: ShaderGLImpl and its ShaderBuilder state machine               *)
(* (Graphics/GraphicsEngineOpenGL/src/ShaderGLImpl.cpp).                   *)
(*                                                                         *)
(* One shader object is followed from construction to destruction.  The    *)
(* creation arguments and the answers the GL driver will give are chosen   *)
(* in Init; the driver finishes an asynchronous compile or link in its own *)
(* steps.  Every C++ function is an operator from a "world" record to the  *)
(* world after the call; an exception is the flag hist.raised.             *)
(***************************************************************************)
EXTENDS Integers, Sequences, FiniteSets, TLC

VARIABLES
    ci,       \* ShaderCreateInfo / CreateInfo / device features (read only)
    drv,      \* what the GL driver will answer for this shader (read only)
    gl,       \* driver-side state: objects created/deleted, work in flight
    shader,   \* fields of ShaderGLImpl
    builder,  \* fields of ShaderGLImpl::ShaderBuilder (kept after its reset)
    out,      \* *ppCompilerOutput and the log sink
    hist,     \* what the last call did: states assigned, GL calls, result
    pc,       \* "new", "alive", "thrown" (constructor raised), "destroyed",
              \* "crashed" (a query went through the null device pointer)
    ncalls,   \* GetStatus() calls made by the API user
    nqueries, \* resource queries made by the API user
    Shaders,  \* the shaders of the asynchronous compilation test
    test      \* the polling loop of the test: i, NumShadersReady, Iter, done

vars == <<ci, drv, gl, shader, builder, out, hist, pc, ncalls, nqueries, Shaders, test>>

---------------------------------------------------------------------------
(* Bounds *)

MaxCalls == 5
MaxLogChars == 1
MaxSrcLen == 2
MaxResources == 1
MaxQueries == 2
MaxUnits == 2
MaxShaders == 2
MaxIter == 2

---------------------------------------------------------------------------
(* Texts.  A text is a sequence of characters; NUL is the C terminator. *)

NUL == "NUL"

Chars(c, n) == [i \in 1..n |-> c]

\* m_GLSLSourceString: never empty (BuildGLSLSourceString adds the version
\* declaration and the source language definition is appended).
Sources == {Chars("s", n) : n \in 1..MaxSrcLen}

\* An info log as the driver holds it: nothing (GL_INFO_LOG_LENGTH = 0) or the
\* text followed by NUL (GL_INFO_LOG_LENGTH = length + 1).
InfoLogs(c) == {<< >>} \cup {Chars(c, n) \o <<NUL>> : n \in 0..MaxLogChars}

Front(s) == SubSeq(s, 1, Len(s) - 1)

\* std::vector<char>::data() read as a C string: the characters before NUL.
CStr(s) == IF s = << >> THEN << >> ELSE Front(s)

States == {"Default", "Compiling", "Linking", "Complete", "Failed"}

---------------------------------------------------------------------------
(* World record helpers *)

World == [ci |-> ci, drv |-> drv, gl |-> gl, shader |-> shader,
          builder |-> builder, out |-> out, hist |-> hist]

Op(w, name) == [w EXCEPT !.hist.ops = Append(@, name)]

SetState(w, s) == [w EXCEPT !.builder.m_State = s, !.hist.path = Append(@, s)]

Throw(w) == [w EXCEPT !.hist.raised = TRUE]

Return(w, v) == [w EXCEPT !.hist.rv = v]

LogMessage(w, sev, what, text) ==
    [w EXCEPT !.out.log = Append(@, [sev |-> sev, what |-> what, text |-> text])]

BeginCall(w) ==
    [w EXCEPT !.hist.path = IF w.shader.m_Builder THEN <<w.builder.m_State>> ELSE << >>,
              !.hist.ops = << >>,
              !.hist.raised = FALSE,
              !.hist.rv = FALSE,
              !.hist.faults = << >>,
              !.hist.result = << >>,
              !.hist.args = << >>,
              !.hist.handlers = << >>]

---------------------------------------------------------------------------
(* GLObjectWrappers::GLObjWrapper: an owning handle, 0 when unset.         *)

CreateShaderObj(w) ==
    Op([w EXCEPT !.gl.shadersCreated = @ + 1,
                 !.shader.m_GLShaderObj = w.gl.shadersCreated + 1], "glCreateShader")

ReleaseShaderObj(w) ==
    IF w.shader.m_GLShaderObj # 0
    THEN Op([w EXCEPT !.gl.shadersDeleted = @ + 1,
                      !.shader.m_GLShaderObj = 0], "glDeleteShader")
    ELSE w

CreateProgramObj(w) ==
    Op([w EXCEPT !.gl.programsCreated = @ + 1,
                 !.builder.m_Program = w.gl.programsCreated + 1], "glCreateProgram")

ReleaseProgramObj(w) ==
    IF w.builder.m_Program # 0
    THEN Op([w EXCEPT !.gl.programsDeleted = @ + 1,
                      !.builder.m_Program = 0], "glDeleteProgram")
    ELSE w

---------------------------------------------------------------------------
(* ShaderGLImpl::CompileShader *)

CompileShader(w) ==
    Op(Op([w EXCEPT !.gl.compileSubmits = @ + 1], "glShaderSource"), "glCompileShader")

---------------------------------------------------------------------------
(* ShaderGLImpl::GetCompileStatus, statement by statement.                 *)

\* glGetShaderiv(GL_COMPILE_STATUS): waits for a compile still in flight.
QueryCompileStatus(w) ==
    Op([w EXCEPT !.gl.compileComplete = TRUE,
                 !.gl.compileChecks = @ + 1,
                 !.gl.waits = @ + (IF w.gl.compileComplete THEN 0 ELSE 1)],
       "glGetShaderiv(GL_COMPILE_STATUS)")

\* The vector InfoLog after the block that reads the log.
InfoLogOf(w) == IF Len(w.drv.InfoLog) > 0 THEN w.drv.InfoLog ELSE << >>

\* The data blob: the info log with its terminator, then the source with its.
CreateOutputDataBlob(w, ppCompilerOutput) ==
    IF ppCompilerOutput
    THEN [w EXCEPT !.out.pOutputDataBlob =
              <<InfoLogOf(w) \o w.shader.m_GLSLSourceString \o <<NUL>> >>]
    ELSE w

\* if (InfoLogLen > 0) { read the log; if (ppCompilerOutput != nullptr) {...} }
ReadInfoLog(w, ppCompilerOutput) ==
    IF Len(w.drv.InfoLog) > 0
    THEN CreateOutputDataBlob(Op(w, "glGetShaderInfoLog"), ppCompilerOutput)
    ELSE w

\* if (ppCompilerOutput == nullptr) dump the full source to the debug output
DumpFullSource(w, ppCompilerOutput) ==
    IF ~ppCompilerOutput
    THEN LogMessage(w, "INFO", "Failed shader full source", w.shader.m_GLSLSourceString)
    ELSE w

\* Mutant: the error is logged and never thrown.
ThrowIf_Never(w, ThrowOnError) == w

ThrowIf(w, ThrowOnError) == IF ThrowOnError THEN Throw(w) ELSE w

\* if (!compiled || !InfoLog.empty()) { ... }
ReportCompileStatus(w, ppCompilerOutput, ThrowOnError) ==
    LET compiled == w.drv.Compiled
        InfoLog == InfoLogOf(w)
        ssText == IF InfoLog # << >> THEN Front(InfoLog) ELSE << >>
        ssWhat == IF compiled THEN "Compiler output for shader"
                  ELSE IF InfoLog # << >> THEN "Failed to compile shader"
                  ELSE "Failed to compile shader (no shader log available)"
    IN IF ~compiled \/ InfoLog # << >>
       THEN IF compiled
            THEN LogMessage(w, "INFO", ssWhat, ssText)
            ELSE ThrowIf(LogMessage(DumpFullSource(w, ppCompilerOutput),
                                    "ERROR", ssWhat, ssText),
                         ThrowOnError)
       ELSE w

GetCompileStatus(w, ppCompilerOutput, ThrowOnError) ==
    Return(ReportCompileStatus(ReadInfoLog(QueryCompileStatus(w), ppCompilerOutput),
                               ppCompilerOutput, ThrowOnError),
           w.drv.Compiled)

---------------------------------------------------------------------------
(* ShaderGLImpl::LinkProgram *)

VerifyLinkProgram(w, NumShaders, IsSeparableProgram) ==
    IF ~(~IsSeparableProgram \/ NumShaders = 1)
    THEN [w EXCEPT !.hist.verify = @ \cup {"LinkProgram"}]
    ELSE w

SetSeparable(w, IsSeparableProgram) ==
    IF IsSeparableProgram THEN Op(w, "glProgramParameteri(GL_PROGRAM_SEPARABLE)") ELSE w

AttachShaders(w, NumShaders) ==
    [w EXCEPT !.hist.ops = @ \o [i \in 1..NumShaders |-> "glAttachShader"],
              !.gl.attached = NumShaders]

LinkProgram(w, NumShaders, IsSeparableProgram) ==
    Op([AttachShaders(
          SetSeparable(
            CreateProgramObj(VerifyLinkProgram(w, NumShaders, IsSeparableProgram)),
            IsSeparableProgram),
          NumShaders)
        EXCEPT !.gl.linkSubmits = @ + 1], "glLinkProgram")

---------------------------------------------------------------------------
(* ShaderGLImpl::GetProgamLinkStatus                                       *)

\* glGetProgramiv(GL_LINK_STATUS): waits for a link still in flight.
QueryLinkStatus(w) ==
    Op([w EXCEPT !.gl.linkComplete = TRUE,
                 !.gl.linkChecks = @ + 1,
                 !.gl.waits = @ + (IF w.gl.linkComplete THEN 0 ELSE 1)],
       "glGetProgramiv(GL_LINK_STATUS)")

\* Mutant: the link log is read and not reported.
ReportLinkFailure_Silent(w, ThrowOnError) ==
    ThrowIf(Op(w, "glGetProgramInfoLog"), ThrowOnError)

\* if (!IsLinked) { read the program log; LOG_ERROR_AND_THROW or LOG_ERROR }
ReportLinkFailure(w, ThrowOnError) ==
    ThrowIf(LogMessage(Op(w, "glGetProgramInfoLog"),
                       "ERROR", "Failed to link shader program", CStr(w.drv.ProgramLog)),
            ThrowOnError)

DetachShaders(w, NumShaders) ==
    [w EXCEPT !.hist.ops = @ \o [i \in 1..NumShaders |-> "glDetachShader"],
              !.gl.attached = @ - NumShaders]

LinkStatusBranch(w, NumShaders, ThrowOnError) ==
    IF ~w.drv.Linked
    THEN ReportLinkFailure(w, ThrowOnError)
    ELSE DetachShaders(w, NumShaders)

GetProgamLinkStatus(w, NumShaders, ThrowOnError) ==
    Return(LinkStatusBranch(QueryLinkStatus(w), NumShaders, ThrowOnError), w.drv.Linked)

---------------------------------------------------------------------------
(* ShaderResourcesGL::LoadUniforms: the reflection of a linked program      *)

LoadUniforms(w) == Op([w EXCEPT !.gl.reflects = @ + 1], "LoadUniforms")

---------------------------------------------------------------------------
(* ShaderGLImpl::ShaderBuilder *)

\* Mutant: the device feature is not consulted when the mode is selected.
ShaderBuilder_FlagOnly(w) ==
    [w EXCEPT !.builder =
        [m_State |-> "Default",
         m_Program |-> 0,
         m_CreateAsynchronously |-> w.ci.Asynchronous,
         m_ppCompilerOutput |-> w.ci.ppCompilerOutput]]

ShaderBuilder(w) ==
    [w EXCEPT !.builder =
        [m_State |-> "Default",
         m_Program |-> 0,
         m_CreateAsynchronously |-> w.ci.Asynchronous /\ w.ci.AsyncShaderCompilation,
         m_ppCompilerOutput |-> w.ci.ppCompilerOutput]]

HandleDefaultState(w) == SetState(CompileShader(w), "Compiling")

\* Mutant: the handlers ask for raising in both modes.
ThrowOnErrorArg_Always(b) == TRUE

\* The argument /*ThrowOnError = */ !m_CreateAsynchronously of both handlers.
ThrowOnErrorArg(b) == ~b.m_CreateAsynchronously

\* glGetShaderiv(GL_COMPLETION_STATUS_KHR) when created asynchronously
PollCompilationComplete(w) ==
    IF w.builder.m_CreateAsynchronously
    THEN Op(w, IF w.gl.compileComplete
               THEN "glGetShaderiv(GL_COMPLETION_STATUS_KHR)=GL_TRUE"
               ELSE "glGetShaderiv(GL_COMPLETION_STATUS_KHR)=GL_FALSE")
    ELSE w

\* Mutant: the completion poll is ignored, the result is read at once.
CompilationComplete_Always(w) == TRUE

CompilationComplete(w) ==
    IF w.builder.m_CreateAsynchronously THEN w.gl.compileComplete ELSE TRUE

\* m_State = GetCompileStatus(...) ? State::Linking : State::Failed
CompilingTransition(c) ==
    IF c.hist.raised THEN c
    ELSE SetState(c, IF c.hist.rv THEN "Linking" ELSE "Failed")

\* Mutant: a compile found still in flight is submitted again.
HandleCompilingState_Resubmit(w) ==
    IF CompilationComplete(w)
    THEN CompilingTransition(
             GetCompileStatus(PollCompilationComplete(w),
                              w.builder.m_ppCompilerOutput,
                              ThrowOnErrorArg(w.builder)))
    ELSE CompileShader(PollCompilationComplete(w))

HandleCompilingState(w) ==
    IF CompilationComplete(w)
    THEN CompilingTransition(
             GetCompileStatus(PollCompilationComplete(w),
                              w.builder.m_ppCompilerOutput,
                              ThrowOnErrorArg(w.builder)))
    ELSE PollCompilationComplete(w)

\* Mutant: every visit of the Linking handler creates and links a program.
LinkOnce_Always(w) == LinkProgram(w, 1, TRUE)

\* if (!m_Program) m_Program = LinkProgram(ThisShader, 1, true)
LinkOnce(w) == IF w.builder.m_Program = 0 THEN LinkProgram(w, 1, TRUE) ELSE w

\* glGetProgramiv(GL_COMPLETION_STATUS_KHR) when created asynchronously
PollLinkingComplete(w) ==
    IF w.builder.m_CreateAsynchronously
    THEN Op(w, IF w.gl.linkComplete
               THEN "glGetProgramiv(GL_COMPLETION_STATUS_KHR)=GL_TRUE"
               ELSE "glGetProgramiv(GL_COMPLETION_STATUS_KHR)=GL_FALSE")
    ELSE w

\* Mutant: in non-blocking mode the link is never taken to be complete.
LinkingComplete_Never(w) == ~w.builder.m_CreateAsynchronously

\* Mutant: the link result is read whatever the completion poll returned.
LinkingComplete_Always(w) == TRUE

LinkingComplete(w) ==
    IF w.builder.m_CreateAsynchronously THEN w.gl.linkComplete ELSE TRUE

\* pResources->LoadUniforms(...); m_Shader.m_pShaderResources.reset(...)
LoadShaderResources(w) ==
    [LoadUniforms(w) EXCEPT !.shader.m_pShaderResources = <<w.drv.Uniforms>>]

\* Mutant: the program is reflected before its link result is looked at.
LinkingTransition_ReflectFirst(s) ==
    IF s.hist.raised THEN s
    ELSE SetState(LoadShaderResources(s), IF s.hist.rv THEN "Complete" ELSE "Failed")

\* Mutant: a failed link sends the builder back to Compiling for another try.
LinkingTransition_Retry(s) ==
    IF s.hist.raised THEN s
    ELSE IF s.hist.rv
    THEN SetState(LoadShaderResources(s), "Complete")
    ELSE SetState(s, "Compiling")

\* Mutant: a good link moves the builder to Complete with nothing loaded.
LinkingTransition_NoReflect(s) ==
    IF s.hist.raised THEN s
    ELSE SetState(s, IF s.hist.rv THEN "Complete" ELSE "Failed")

\* if (GetProgamLinkStatus(...)) {...; Complete} else Failed
LinkingTransition(s) ==
    IF s.hist.raised THEN s
    ELSE IF s.hist.rv
    THEN SetState(LoadShaderResources(s), "Complete")
    ELSE SetState(s, "Failed")

LinkingPoll(l) ==
    IF LinkingComplete(l)
    THEN LinkingTransition(
             GetProgamLinkStatus(PollLinkingComplete(l), 1,
                                 ThrowOnErrorArg(l.builder)))
    ELSE PollLinkingComplete(l)

\* Mutant: the program is linked whether or not the device has separable
\* programs.
HandleLinkingState_AlwaysLink(w) == LinkingPoll(LinkOnce(w))

HandleLinkingState(w) ==
    IF w.ci.SeparablePrograms
    THEN LinkingPoll(LinkOnce(w))
    ELSE SetState(w, "Complete")

\* VERIFY(m_State != State::Complete && m_State != State::Failed, ...)
TickVerify(w) ==
    IF w.builder.m_State \in {"Complete", "Failed"}
    THEN [w EXCEPT !.hist.verify = @ \cup {"Tick"}]
    ELSE w

\* The handler of state s is entered.
Handling(w, s) == [w EXCEPT !.hist.handlers = Append(@, s)]

TickDefault(w) ==
    IF w.builder.m_State = "Default"
    THEN HandleDefaultState(Handling(w, "Default")) ELSE w

\* Mutant: a state reached in this call is handled by the next call.
TickCompiling_NextCall(w) ==
    IF ~w.hist.raised /\ w.builder.m_State = "Compiling" /\ Len(w.hist.path) = 1
    THEN HandleCompilingState(Handling(w, "Compiling")) ELSE w

TickCompiling(w) ==
    IF ~w.hist.raised /\ w.builder.m_State = "Compiling"
    THEN HandleCompilingState(Handling(w, "Compiling")) ELSE w

TickLinking(w) ==
    IF ~w.hist.raised /\ w.builder.m_State = "Linking"
    THEN HandleLinkingState(Handling(w, "Linking")) ELSE w

\* Mutant: reaching Failed leaves the shader object in place.
TickFailed_NoRelease(w) == w

TickFailed(w) ==
    IF ~w.hist.raised /\ w.builder.m_State = "Failed"
    THEN ReleaseShaderObj(w) ELSE w

TickReturn(w) ==
    IF w.hist.raised THEN w
    ELSE Return(w, w.builder.m_State \in {"Complete", "Failed"})

Tick(w) ==
    TickReturn(TickFailed(TickLinking(TickCompiling(TickDefault(TickVerify(w))))))

\* ~ShaderBuilder (m_Builder.reset()): the member m_Program is released.
ResetBuilder(w) ==
    IF w.shader.m_Builder
    THEN [ReleaseProgramObj(w) EXCEPT !.shader.m_Builder = FALSE]
    ELSE w

---------------------------------------------------------------------------
(* ShaderGLImpl::GetStatus *)

\* Mutant: a builder whose tick returned true is kept.
ResetIfDone_Keep(t) == t

\* if (m_Builder->Tick()) m_Builder.reset();
ResetIfDone(t) ==
    IF ~t.hist.raised /\ t.hist.rv THEN ResetBuilder(t) ELSE t

\* Mutant: a poll of a shader whose builder is gone drops the resources.
TickBuilder_DropResources(w) ==
    IF w.shader.m_Builder THEN ResetIfDone(Tick(w))
    ELSE [w EXCEPT !.shader.m_pShaderResources = << >>]

\* Mutant: a poll of a shader whose builder is gone reads the compile
\* result again.
TickBuilder_Recheck(w) ==
    IF w.shader.m_Builder THEN ResetIfDone(Tick(w))
    ELSE Op(w, "glGetShaderiv(GL_COMPILE_STATUS)")

TickBuilder(w) == IF w.shader.m_Builder THEN ResetIfDone(Tick(w)) ELSE w

\* Mutant: the shader handle is not consulted once the builder is gone.
StatusOf_NoHandleTest(r) ==
    IF r.hist.raised THEN r
    ELSE [r EXCEPT !.hist.ret = IF r.shader.m_Builder THEN "COMPILING" ELSE "READY"]

\* return m_Builder ? COMPILING : (m_GLShaderObj ? READY : FAILED)
StatusOf(r) ==
    IF r.hist.raised THEN r
    ELSE [r EXCEPT !.hist.ret =
             IF r.shader.m_Builder THEN "COMPILING"
             ELSE IF r.shader.m_GLShaderObj # 0 THEN "READY" ELSE "FAILED"]

GetStatus(w) == StatusOf(TickBuilder(w))

---------------------------------------------------------------------------
(* Destruction of the members of ShaderGLImpl, in reverse order of their   *)
(* construction: m_Builder (with its m_Program), then m_GLShaderObj.       *)

\* Mutant: the builder, and the program it holds, is not destroyed.
DestroyMembers_LeakProgram(w) ==
    [ReleaseShaderObj(w) EXCEPT !.shader.m_pShaderResources = << >>]

DestroyMembers(w) ==
    [ReleaseShaderObj(ResetBuilder(w)) EXCEPT !.shader.m_pShaderResources = << >>]

---------------------------------------------------------------------------
(* The resource queries of ShaderGLImpl.  What a query returns is left in  *)
(* hist.result: <<n>> for a count, <<d>> for a description or a buffer     *)
(* description, << >> for nullptr or an output argument left untouched.    *)
(* The DEV_CHECK_ERR and UNEXPECTED checks that fire are left in            *)
(* hist.faults; the code goes on after them.                               *)

Result(w, r) == [w EXCEPT !.hist.result = r]

DevCheck(w, cond, what) ==
    IF cond THEN w ELSE [w EXCEPT !.hist.faults = Append(@, what)]

\* Mutant: the queries do not look at the builder.
BuilderCheck_Absent(w) == w

\* DEV_CHECK_ERR(!m_Builder, "Shader resources are not available until ...")
BuilderCheck(w) ==
    DevCheck(w, ~w.shader.m_Builder, "Shader resources are not available")

\* LOG_WARNING_MESSAGE("Shader resource queries are not available when ...")
WarnUnavailable(w) ==
    LogMessage(w, "WARNING", "Shader resource queries are not available", << >>)

\* m_pShaderResources ? m_pShaderResources->GetVariableCount() : 0
GetVariableCount(w) ==
    IF w.shader.m_pShaderResources # << >>
    THEN Len(w.shader.m_pShaderResources[1])
    ELSE 0

CountBranch(c, SeparablePrograms) ==
    IF SeparablePrograms
    THEN Result(c, <<GetVariableCount(c)>>)
    ELSE Result(WarnUnavailable(c), <<0>>)

GetResourceCount(w, SeparablePrograms) ==
    CountBranch(BuilderCheck(w), SeparablePrograms)

\* DEV_CHECK_ERR(Index < GetResourceCount(), "Index is out of range")
IndexCheck(n, Index) == DevCheck(n, Index < n.hist.result[1], "Index is out of range")

\* if (m_pShaderResources) ResourceDesc = m_pShaderResources->GetResourceDesc(Index)
\* (what the reflection data gives for an index it does not have is unknown)
AssignResourceDesc(x, Index, Unknown) ==
    IF x.shader.m_pShaderResources = << >> THEN Result(x, << >>)
    ELSE IF Index < Len(x.shader.m_pShaderResources[1])
    THEN Result(x, <<x.shader.m_pShaderResources[1][Index + 1]>>)
    ELSE Result(x, Unknown)

DescBranch(c, Index, SeparablePrograms, Unknown) ==
    IF SeparablePrograms
    THEN AssignResourceDesc(IndexCheck(GetResourceCount(c, TRUE), Index), Index, Unknown)
    ELSE Result(WarnUnavailable(c), << >>)

GetResourceDesc(w, Index, SeparablePrograms, Unknown) ==
    DescBranch(BuilderCheck(w), Index, SeparablePrograms, Unknown)

\* if (Index >= GetResourceCount()) { UNEXPECTED(...); return nullptr; }
\* return m_pShaderResources->GetUniformBufferDesc(Index);
UniformBufferDesc(n, Index) ==
    IF Index >= n.hist.result[1]
    THEN Result(DevCheck(n, FALSE, "Constant buffer index is out of range"), << >>)
    ELSE Result(n, <<n.shader.m_pShaderResources[1][Index + 1]>>)

BufferBranch(c, Index, SeparablePrograms) ==
    IF SeparablePrograms
    THEN UniformBufferDesc(GetResourceCount(c, TRUE), Index)
    ELSE Result(WarnUnavailable(c), << >>)

GetConstantBufferDesc(w, Index, SeparablePrograms) ==
    BufferBranch(BuilderCheck(w), Index, SeparablePrograms)

---------------------------------------------------------------------------
(* The specification *)

Inputs ==
    [pDeviceGL : BOOLEAN,
     Asynchronous : BOOLEAN,
     AsyncShaderCompilation : BOOLEAN,
     SeparablePrograms : BOOLEAN,
     ppCompilerOutput : BOOLEAN,
     Source : Sources]

DriverAnswers ==
    [Compiled : BOOLEAN,
     InfoLog : InfoLogs("e"),
     Linked : BOOLEAN,
     ProgramLog : InfoLogs("l"),
     Uniforms : {[i \in 1..n |-> i] : n \in 0..MaxResources}]

\* The program links only what compiled, on a device with separable programs.
LinkAsked(c, d) == c.pDeviceGL /\ c.SeparablePrograms /\ d.Compiled

\* Answers the program never asks the driver for are left at one value:
\* nothing without a device, the link result only after a good compile on
\* a device with separable programs, the program log only of a failed link,
\* the uniforms only of a successful one.
Asked(c, d) ==
    /\ ~c.pDeviceGL => d.Compiled /\ d.InfoLog = << >>
    /\ ~LinkAsked(c, d) => d.Linked
    /\ d.Linked => d.ProgramLog = << >>
    /\ ~(LinkAsked(c, d) /\ d.Linked) => d.Uniforms = << >>

\* Nothing is constructed yet.
Unconstructed ==
    /\ gl = [shadersCreated |-> 0, shadersDeleted |-> 0,
             programsCreated |-> 0, programsDeleted |-> 0,
             compileSubmits |-> 0, compileComplete |-> FALSE, compileChecks |-> 0,
             linkSubmits |-> 0, linkComplete |-> FALSE, linkChecks |-> 0,
             attached |-> 0, reflects |-> 0, waits |-> 0]
    /\ shader = [m_GLShaderObj |-> 0, m_Builder |-> FALSE,
                 m_pShaderResources |-> << >>, m_GLSLSourceString |-> << >>]
    /\ builder = [m_State |-> "Default", m_Program |-> 0,
                  m_CreateAsynchronously |-> FALSE, m_ppCompilerOutput |-> FALSE]
    /\ out = [pOutputDataBlob |-> << >>, log |-> << >>]
    /\ hist = [path |-> << >>, ops |-> << >>, raised |-> FALSE, rv |-> FALSE,
               ret |-> "none", verify |-> {}, call |-> "none",
               faults |-> << >>, result |-> << >>, args |-> << >>,
               handlers |-> << >>]

Init ==
    /\ ci \in {c \in Inputs :
                 ~c.pDeviceGL => ~c.AsyncShaderCompilation /\ ~c.SeparablePrograms}
    /\ drv \in {d \in DriverAnswers : Asked(ci, d)}
    /\ Unconstructed
    /\ pc = "new"
    /\ ncalls = 0
    /\ nqueries = 0
    /\ Shaders = << >>
    /\ test = [i |-> 1, NumShadersReady |-> 0, Iter |-> 0, done |-> FALSE]

Commit(w) ==
    /\ gl' = w.gl
    /\ shader' = w.shader
    /\ builder' = w.builder
    /\ out' = w.out
    /\ hist' = w.hist

\* Mutant: the shader object is created whether or not there is a device.
InitMembers_CreateHandle(w) ==
    IF w.ci.pDeviceGL
    THEN [ShaderBuilder(CreateShaderObj(w)) EXCEPT
              !.shader.m_Builder = TRUE,
              !.shader.m_GLSLSourceString = w.ci.Source,
              !.hist.path = <<"Default">>]
    ELSE [CreateShaderObj(w) EXCEPT !.shader.m_GLSLSourceString = w.ci.Source]

\* The member initialisers of the constructor.
InitMembers(w) ==
    IF w.ci.pDeviceGL
    THEN [ShaderBuilder(CreateShaderObj(w)) EXCEPT
              !.shader.m_Builder = TRUE,
              !.shader.m_GLSLSourceString = w.ci.Source,
              !.hist.path = <<"Default">>]
    ELSE [w EXCEPT !.shader.m_GLSLSourceString = w.ci.Source]

\* if (pDeviceGL == nullptr) return;  GetStatus();
ForceBuilderTick(w) == IF ~w.ci.pDeviceGL THEN w ELSE GetStatus(w)

\* An exception leaving the constructor destroys the members.
Unwind(g) == IF g.hist.raised THEN DestroyMembers(g) ELSE g

Constructor(w) == Unwind(ForceBuilderTick(InitMembers(w)))

\* The constructor: member initialisers, the source string, the forced tick.
ShaderGLImpl ==
    /\ pc = "new"
    /\ Commit(Constructor(BeginCall([World EXCEPT !.hist.call = "ShaderGLImpl"])))
    /\ pc' = IF hist'.raised THEN "thrown" ELSE "alive"
    /\ UNCHANGED <<ci, drv, ncalls, nqueries, Shaders, test>>

\* The API user polls the shader.
CallGetStatus ==
    /\ pc = "alive"
    /\ ncalls < MaxCalls
    /\ ncalls' = ncalls + 1
    /\ Commit(GetStatus(BeginCall([World EXCEPT !.hist.call = "GetStatus"])))
    /\ UNCHANGED <<ci, drv, pc, nqueries, Shaders, test>>

\* ~ShaderGLImpl
DestroyShaderGLImpl ==
    /\ pc = "alive"
    /\ pc' = "destroyed"
    /\ Commit(DestroyMembers(BeginCall([World EXCEPT !.hist.call = "~ShaderGLImpl"])))
    /\ UNCHANGED <<ci, drv, ncalls, nqueries, Shaders, test>>

\* The driver finishes the compile submitted with glCompileShader.
DriverCompletesCompile ==
    /\ pc = "alive"
    /\ gl.compileSubmits > 0
    /\ ~gl.compileComplete
    /\ gl' = [gl EXCEPT !.compileComplete = TRUE]
    /\ UNCHANGED <<ci, drv, shader, builder, out, hist, pc, ncalls, nqueries, Shaders, test>>

\* The driver finishes the link submitted with glLinkProgram.
DriverCompletesLink ==
    /\ pc = "alive"
    /\ gl.linkSubmits > 0
    /\ ~gl.linkComplete
    /\ gl' = [gl EXCEPT !.linkComplete = TRUE]
    /\ UNCHANGED <<ci, drv, shader, builder, out, hist, pc, ncalls, nqueries, Shaders, test>>

\* m_pDevice->GetFeatures().SeparablePrograms: without a device the read
\* goes through a null pointer and may give anything (or end the program).
FeatureReads == IF ci.pDeviceGL THEN {ci.SeparablePrograms} ELSE BOOLEAN

Indices == 0..MaxResources

\* What an out-of-range read of the reflection data may leave in the
\* output argument.
UnknownDescs == {<< >>, <<"unknown">>}

Query(name) == BeginCall([World EXCEPT !.hist.call = name])

CallGetResourceCount ==
    /\ pc = "alive"
    /\ nqueries < MaxQueries
    /\ nqueries' = nqueries + 1
    /\ \E sep \in FeatureReads :
          Commit(GetResourceCount(Query("GetResourceCount"), sep))
    /\ UNCHANGED <<ci, drv, pc, ncalls, Shaders, test>>

CallGetResourceDesc ==
    /\ pc = "alive"
    /\ nqueries < MaxQueries
    /\ nqueries' = nqueries + 1
    /\ \E sep \in FeatureReads, Index \in Indices, Unknown \in UnknownDescs :
          Commit(GetResourceDesc(Query("GetResourceDesc"), Index, sep, Unknown))
    /\ UNCHANGED <<ci, drv, pc, ncalls, Shaders, test>>

CallGetConstantBufferDesc ==
    /\ pc = "alive"
    /\ nqueries < MaxQueries
    /\ nqueries' = nqueries + 1
    /\ \E sep \in FeatureReads, Index \in Indices :
          Commit(GetConstantBufferDesc(Query("GetConstantBufferDesc"), Index, sep))
    /\ UNCHANGED <<ci, drv, pc, ncalls, Shaders, test>>

\* A query on a shader created without a device ends the program.
QueryWithoutDevice ==
    /\ pc = "alive"
    /\ ~ci.pDeviceGL
    /\ nqueries < MaxQueries
    /\ nqueries' = nqueries + 1
    /\ pc' = "crashed"
    /\ Commit(Query("GetResourceCount"))
    /\ UNCHANGED <<ci, drv, ncalls, Shaders, test>>

\* The numbers of shaders a caller hands to LinkProgram.
UnitCounts == 1..MaxUnits

\* The program object LinkProgram returns, as the driver holds it.
LinkedProgram(l) ==
    [l EXCEPT !.hist.result =
        <<[separable |-> "glProgramParameteri(GL_PROGRAM_SEPARABLE)" \in
                            {l.hist.ops[i] : i \in 1..Len(l.hist.ops)},
           attached |-> l.gl.attached,
           linked |-> l.hist.ops[Len(l.hist.ops)] = "glLinkProgram"]>>]

LinkCall(NumShaders, IsSeparableProgram) ==
    [BeginCall([World EXCEPT !.hist.call = "LinkProgram"])
        EXCEPT !.hist.args = <<NumShaders, IsSeparableProgram>>]

\* The static LinkProgram called from outside (a pipeline state links its
\* compiled shaders).  The program made belongs to the caller.  A VERIFY
\* that fails is reported and, depending on the build, either ends the
\* program there or is passed over.
CallLinkProgram ==
    /\ pc = "alive"
    /\ shader.m_GLShaderObj # 0
    /\ ~shader.m_Builder
    /\ \E NumShaders \in UnitCounts, IsSeparableProgram \in BOOLEAN, stops \in BOOLEAN :
          IF stops /\ IsSeparableProgram /\ NumShaders # 1
          THEN /\ hist' = VerifyLinkProgram(LinkCall(NumShaders, IsSeparableProgram),
                                            NumShaders, IsSeparableProgram).hist
               /\ pc' = "crashed"
          ELSE /\ hist' = LinkedProgram(LinkProgram(LinkCall(NumShaders, IsSeparableProgram),
                                                    NumShaders, IsSeparableProgram)).hist
               /\ pc' = pc
    /\ UNCHANGED <<ci, drv, gl, shader, builder, out, ncalls, nqueries, Shaders, test>>

Next ==
    \/ ShaderGLImpl
    \/ CallGetStatus
    \/ DestroyShaderGLImpl
    \/ DriverCompletesCompile
    \/ DriverCompletesLink
    \/ CallGetResourceCount
    \/ CallGetResourceDesc
    \/ CallGetConstantBufferDesc
    \/ QueryWithoutDevice

Spec == Init /\ [][Next]_vars

\* A shader is created and polled, and once it is compiled a caller links it
\* into a program.
LinkNext ==
    \/ ShaderGLImpl
    \/ CallGetStatus
    \/ DriverCompletesCompile
    \/ DriverCompletesLink
    \/ CallLinkProgram

LinkSpec == Init /\ [][LinkNext]_vars

---------------------------------------------------------------------------
(* TEST(Shader, AsyncCompilation): shaders are created asynchronously from *)
(* one source and polled in turn until one pass finds all of them ready.   *)

\* CreateShader(...): pDevice->CreateShader(ShaderCI, &pShader)
CreateShader == Constructor(BeginCall([World EXCEPT !.hist.call = "ShaderGLImpl"]))

TestInit ==
    /\ ci \in {c \in Inputs : /\ c.pDeviceGL
                              /\ c.Asynchronous
                              /\ c.AsyncShaderCompilation
                              /\ ~c.ppCompilerOutput}
    /\ drv \in {d \in DriverAnswers : d.Compiled /\ d.Linked /\ Asked(ci, d)}
    /\ Unconstructed
    /\ pc = "test"
    /\ ncalls = 0
    /\ nqueries = 0
    /\ Shaders = [n \in 1..MaxShaders |-> CreateShader]
    /\ test = [i |-> 1, NumShadersReady |-> 0, Iter |-> 0, done |-> FALSE]

\* The driver finishes the compile of one of the shaders.
DriverCompletesCompileOf(n) ==
    /\ Shaders[n].gl.compileSubmits > 0
    /\ ~Shaders[n].gl.compileComplete
    /\ Shaders' = [Shaders EXCEPT ![n].gl.compileComplete = TRUE]
    /\ UNCHANGED <<ci, drv, gl, shader, builder, out, hist, pc, ncalls, nqueries, test>>

\* The driver finishes the link of one of the shaders.
DriverCompletesLinkOf(n) ==
    /\ Shaders[n].gl.linkSubmits > 0
    /\ ~Shaders[n].gl.linkComplete
    /\ Shaders' = [Shaders EXCEPT ![n].gl.linkComplete = TRUE]
    /\ UNCHANGED <<ci, drv, gl, shader, builder, out, hist, pc, ncalls, nqueries, test>>

PollOf(w) == GetStatus(BeginCall([w EXCEPT !.hist.call = "GetStatus"]))

Counted(t, status) ==
    [t EXCEPT !.i = @ + 1,
              !.NumShadersReady = @ + (IF status = "READY" THEN 1 ELSE 0)]

\* if (pShader->GetStatus() == SHADER_STATUS_READY) ++NumShadersReady;
PollShader ==
    /\ ~test.done
    /\ test.i <= MaxShaders
    /\ Shaders' = [Shaders EXCEPT ![test.i] = PollOf(@)]
    /\ test' = Counted(test, Shaders'[test.i].hist.ret)
    /\ UNCHANGED <<ci, drv, gl, shader, builder, out, hist, pc, ncalls, nqueries>>

\* if (NumShadersReady == Shaders.size()) break;  ...  ++Iter;
EndPass ==
    /\ ~test.done
    /\ test.i = MaxShaders + 1
    /\ test' = IF test.NumShadersReady = MaxShaders
               THEN [test EXCEPT !.done = TRUE]
               ELSE [test EXCEPT !.i = 1,
                                 !.NumShadersReady = 0,
                                 !.Iter = IF @ < MaxIter THEN @ + 1 ELSE @]
    /\ UNCHANGED <<ci, drv, gl, shader, builder, out, hist, pc, ncalls, nqueries, Shaders>>

TestNext ==
    \/ \E n \in 1..MaxShaders : DriverCompletesCompileOf(n)
    \/ \E n \in 1..MaxShaders : DriverCompletesLinkOf(n)
    \/ PollShader
    \/ EndPass

\* A PollShader step as the loop's variable shows it: the next shader is
\* counted.  PollShader can be taken exactly when Polled can, and no other
\* step of the test is a Polled step.
Polled ==
    /\ ~test.done
    /\ test.i <= MaxShaders
    /\ test' \in {Counted(test, status) : status \in {"COMPILING", "READY", "FAILED"}}

\* The test thread keeps running its loop (it polls the next shader and
\* ends the pass whenever it can), and the driver finishes every compile
\* and link it was given.
TestSpec ==
    /\ TestInit
    /\ [][TestNext]_vars
    /\ WF_test(Polled)
    /\ WF_vars(EndPass)
    /\ \A n \in 1..MaxShaders : WF_vars(DriverCompletesCompileOf(n))
    /\ \A n \in 1..MaxShaders : WF_vars(DriverCompletesLinkOf(n))

---------------------------------------------------------------------------
(* Vocabulary of the properties *)

Range(s) == {s[i] : i \in 1..Len(s)}

Last(s) == s[Len(s)]

Terminal == {"Complete", "Failed"}

\* The edges of the builder's state machine.
Edges == {<<"Default", "Compiling">>, <<"Compiling", "Linking">>,
          <<"Compiling", "Failed">>, <<"Linking", "Complete">>,
          <<"Linking", "Failed">>}

\* The step is a call of GetStatus(): by the constructor or by the user.
StatusCallStep == (pc = "new" /\ pc' # "new") \/ ncalls' # ncalls

\* Builder state s was left during the call whose record is h.
Left(h, s) == \E i \in 1..(Len(h.path) - 1) : h.path[i] = s

Blocking == ~builder.m_CreateAsynchronously

Constructed == pc # "new" /\ ci.pDeviceGL

---------------------------------------------------------------------------
(* C1: the builder state moves only along Default->Compiling,              *)
(* Compiling->Linking, Compiling->Failed, Linking->Complete and            *)
(* Linking->Failed: every assignment a call makes to the state follows one *)
(* of these edges, the state changes only in such a call, and a state of   *)
(* Complete or Failed never changes again.                                 *)

C1_ForwardEdgesOnly ==
    [][ /\ \A i \in 1..(Len(hist'.path) - 1) :
              <<hist'.path[i], hist'.path[i + 1]>> \in Edges
        /\ builder'.m_State # builder.m_State =>
              /\ StatusCallStep
              /\ hist'.path[1] = builder.m_State
              /\ Last(hist'.path) = builder'.m_State
        /\ builder.m_State \in Terminal => builder'.m_State = builder.m_State
      ]_vars

\* A non-blocking builder went Linking -> Complete and was polled again.
C1_Witness ==
    /\ builder.m_CreateAsynchronously
    /\ ci.SeparablePrograms
    /\ builder.m_State = "Complete"
    /\ hist.call = "GetStatus"
    /\ hist.path = << >>

---------------------------------------------------------------------------
(* C2 as stated: the mode is blocking exactly when asynchronous            *)
(* compilation was not requested or the device does not support it, it     *)
(* never changes, and in blocking mode the one GetStatus() call made at    *)
(* construction leaves the builder in Complete or Failed, whatever the     *)
(* compile and link outcomes.                                              *)

ModeFixedAtConstruction ==
    builder.m_CreateAsynchronously = (ci.Asynchronous /\ ci.AsyncShaderCompilation)

C2_Original ==
    Constructed =>
        /\ ModeFixedAtConstruction
        /\ Blocking => builder.m_State \in Terminal

\* In blocking mode both outcomes are good: nothing fails.
BlockingSucceeds == drv.Compiled /\ (ci.SeparablePrograms => drv.Linked)

(* C2 as amended: the mode is as stated; in blocking mode the one          *)
(* GetStatus() call made at construction leaves the builder in Complete    *)
(* when compile and link succeed, and otherwise raises: the builder stays  *)
(* in Compiling (compile failure) or Linking (link failure), never reaches *)
(* Failed, and is destroyed with the shader.  No further poll is needed.   *)

C2_BlockingSingleCall ==
    Constructed =>
        /\ ModeFixedAtConstruction
        /\ Blocking =>
              /\ ~shader.m_Builder
              /\ IF BlockingSucceeds
                 THEN /\ pc # "thrown"
                      /\ builder.m_State = "Complete"
                      /\ hist.ret = "READY"
                 ELSE /\ pc = "thrown"
                      /\ builder.m_State =
                            (IF drv.Compiled THEN "Linking" ELSE "Compiling")

\* Asynchronous compilation requested on a device without the feature:
\* blocking mode, complete with a linked program after construction.
C2_Witness ==
    /\ pc = "alive"
    /\ ncalls = 0
    /\ ci.Asynchronous /\ ~ci.AsyncShaderCompilation
    /\ Blocking
    /\ ci.SeparablePrograms
    /\ builder.m_State = "Complete"
    /\ hist.path = <<"Default", "Compiling", "Linking", "Complete">>

---------------------------------------------------------------------------
(* C3: in non-blocking mode a GetStatus() call made in Compiling before    *)
(* the driver finished the compile, or in Linking with the link issued and *)
(* not finished, leaves builder and shader as they were and returns        *)
(* COMPILING; and a call leaves Compiling only if its completion poll of   *)
(* the compile returned true, and leaves Linking with a link issued only   *)
(* if its completion poll of the link returned true.                       *)

C3_NoSpuriousTransition ==
    [][ (StatusCallStep /\ builder'.m_CreateAsynchronously) =>
          /\ (shader.m_Builder /\ builder.m_State = "Compiling"
                /\ ~gl.compileComplete) =>
                /\ builder' = builder
                /\ shader' = shader
                /\ out' = out
                /\ ~hist'.raised /\ hist'.ret = "COMPILING"
          /\ (shader.m_Builder /\ builder.m_State = "Linking"
                /\ builder.m_Program # 0 /\ ~gl.linkComplete) =>
                /\ builder' = builder
                /\ shader' = shader
                /\ out' = out
                /\ ~hist'.raised /\ hist'.ret = "COMPILING"
          /\ Left(hist', "Compiling") =>
                "glGetShaderiv(GL_COMPLETION_STATUS_KHR)=GL_TRUE" \in Range(hist'.ops)
          /\ (Left(hist', "Linking") /\ gl'.linkSubmits > 0) =>
                "glGetProgramiv(GL_COMPLETION_STATUS_KHR)=GL_TRUE" \in Range(hist'.ops)
      ]_vars

\* A poll of a link issued by an earlier call and still in flight.
C3_Witness ==
    /\ builder.m_CreateAsynchronously
    /\ hist.call = "GetStatus"
    /\ hist.path = <<"Linking">>
    /\ builder.m_Program # 0
    /\ ~gl.linkComplete
    /\ hist.ret = "COMPILING"
    /\ hist.ops = <<"glGetProgramiv(GL_COMPLETION_STATUS_KHR)=GL_FALSE">>

---------------------------------------------------------------------------
(* C4 as stated: a GetStatus() call returns COMPILING exactly when a       *)
(* builder exists after it, READY exactly when the builder ended in        *)
(* Complete and FAILED exactly when the builder ended in Failed; a builder *)
(* whose tick returned true is discarded in that call, and only Tick       *)
(* assigns the builder state.                                              *)

StatusReturned == hist.call \in {"ShaderGLImpl", "GetStatus"} /\ hist.ret # "none"

BuilderEndedIn(s) == ci.pDeviceGL /\ ~shader.m_Builder /\ builder.m_State = s

BuilderDiscardedWhenDone == shader.m_Builder => builder.m_State \notin Terminal

C4_Original ==
    /\ BuilderDiscardedWhenDone
    /\ StatusReturned =>
          /\ hist.ret = "COMPILING" <=> shader.m_Builder
          /\ hist.ret = "READY" <=> BuilderEndedIn("Complete")
          /\ hist.ret = "FAILED" <=> BuilderEndedIn("Failed")

(* C4 as amended: as stated, except that FAILED is returned exactly when   *)
(* the builder ended in Failed or the shader was constructed without a     *)
(* device, in which case it never had a builder.                           *)

C4_StatusFromBuilder ==
    /\ BuilderDiscardedWhenDone
    /\ StatusReturned =>
          /\ hist.ret = "COMPILING" <=> shader.m_Builder
          /\ hist.ret = "READY" <=> BuilderEndedIn("Complete")
          /\ hist.ret = "FAILED" <=> (BuilderEndedIn("Failed") \/ ~ci.pDeviceGL)
    /\ ~ci.pDeviceGL => builder.m_State = "Default" /\ ~shader.m_Builder

\* The call in which the tick reached Complete discarded the builder and
\* returned READY.
C4_Witness ==
    /\ hist.call = "GetStatus"
    /\ hist.path = <<"Linking", "Complete">>
    /\ ~shader.m_Builder
    /\ hist.ret = "READY"

---------------------------------------------------------------------------
(* C5: in non-blocking mode nothing is ever raised, by the constructor or  *)
(* by GetStatus(); once a compile or link result was read as a failure the *)
(* builder is in Failed (and discarded) and GetStatus() has returned       *)
(* FAILED in that call and returns it in every later one.                  *)

FailureDetected ==
    \/ gl.compileChecks > 0 /\ ~drv.Compiled
    \/ gl.linkChecks > 0 /\ ~drv.Linked

C5_NonBlockingNeverRaises ==
    (Constructed /\ ~Blocking) =>
        /\ ~hist.raised
        /\ pc # "thrown"
        /\ FailureDetected =>
              /\ builder.m_State = "Failed"
              /\ ~shader.m_Builder
              /\ hist.ret = "FAILED"

\* A poll made after the one that found the link failed.
C5_Witness ==
    /\ ~Blocking
    /\ gl.linkChecks > 0 /\ ~drv.Linked
    /\ hist.call = "GetStatus"
    /\ hist.path = << >>
    /\ hist.ret = "FAILED"

---------------------------------------------------------------------------
(* C6: in blocking mode a compile or link failure is raised to the caller  *)
(* when the handlers ask for raising (ThrowOnError), and otherwise it is   *)
(* recorded: the builder is in Failed and the status is FAILED.            *)

C6_BlockingFailureRaisedOrRecorded ==
    (Constructed /\ Blocking /\ FailureDetected) =>
        IF ThrowOnErrorArg(builder)
        THEN hist.raised /\ pc = "thrown"
        ELSE builder.m_State = "Failed" /\ hist.ret = "FAILED"

\* A blocking link failure raised out of the constructor.
C6_Witness ==
    /\ Blocking
    /\ gl.linkChecks > 0 /\ ~drv.Linked
    /\ hist.raised
    /\ pc = "thrown"

---------------------------------------------------------------------------
(* C7 as stated: once the driver rejected the source at compile time, the  *)
(* status returned is FAILED; if a diagnostics buffer was requested it has *)
(* been produced and is not empty, also when the compile log is empty; if  *)
(* none was requested the full source went to the log sink.                *)

CompileRejected == gl.compileChecks > 0 /\ ~drv.Compiled

SourceDumped ==
    \E i \in 1..Len(out.log) :
        /\ out.log[i].what = "Failed shader full source"
        /\ out.log[i].text = ci.Source

C7_RejectedSourceDiagnostics ==
    CompileRejected =>
        /\ pc # "thrown" => hist.ret = "FAILED"
        /\ ci.ppCompilerOutput =>
              /\ out.pOutputDataBlob # << >>
              /\ Len(out.pOutputDataBlob[1]) > 0
        /\ ~ci.ppCompilerOutput => SourceDumped

---------------------------------------------------------------------------
(* C8 as stated: whenever the status is FAILED after a compile or a link   *)
(* failure, the log of that failure is in the diagnostics buffer if one    *)
(* was requested, and otherwise was emitted to the log sink.               *)

FailedStatus == hist.ret = "FAILED" /\ builder.m_State = "Failed"

\* The text of the log of the failure that happened.
FailureLog == IF ~drv.Compiled THEN CStr(drv.InfoLog) ELSE CStr(drv.ProgramLog)

FailureWhat ==
    IF drv.Compiled THEN "Failed to link shader program"
    ELSE IF drv.InfoLog # << >> THEN "Failed to compile shader"
    ELSE "Failed to compile shader (no shader log available)"

Contains(b, t) == \E i \in 0..(Len(b) - Len(t)) : SubSeq(b, i + 1, i + Len(t)) = t

FailureLogEmitted ==
    \E i \in 1..Len(out.log) :
        /\ out.log[i].sev = "ERROR"
        /\ out.log[i].what = FailureWhat
        /\ out.log[i].text = FailureLog

\* The text of the failure's log is in the buffer (an empty text needs none).
FailureLogInBuffer ==
    \/ FailureLog = << >>
    \/ out.pOutputDataBlob # << >> /\ Contains(out.pOutputDataBlob[1], FailureLog)

---------------------------------------------------------------------------
(* C9: the resource set is absent or complete; it is assigned only in the  *)
(* call that moves Linking to Complete after a link found successful and a *)
(* reflection, at most once; it is absent while the builder state is       *)
(* Default, Compiling, Linking or Failed; once assigned it does not change *)
(* as long as the shader lives.                                            *)

C9_ResourcesAllOrNothing ==
    [][ /\ shader'.m_pShaderResources # << >> =>
              shader'.m_pShaderResources = <<drv.Uniforms>>
        /\ (shader.m_pShaderResources = << >> /\ shader'.m_pShaderResources # << >>) =>
              /\ StatusCallStep
              /\ Len(hist'.path) >= 2
              /\ SubSeq(hist'.path, Len(hist'.path) - 1, Len(hist'.path))
                    = <<"Linking", "Complete">>
              /\ drv.Linked /\ gl'.linkChecks = 1
              /\ "LoadUniforms" \in Range(hist'.ops)
              /\ gl.reflects = 0 /\ gl'.reflects = 1
        /\ gl'.reflects <= 1
        /\ builder'.m_State # "Complete" => shader'.m_pShaderResources = << >>
        /\ (shader.m_pShaderResources # << >> /\ pc' = "alive") =>
              shader'.m_pShaderResources = shader.m_pShaderResources
      ]_vars

\* The call that completed the link assigned a non-empty resource set.
C9_Witness ==
    /\ hist.call = "GetStatus"
    /\ hist.path = <<"Linking", "Complete">>
    /\ shader.m_pShaderResources # << >>
    /\ Len(shader.m_pShaderResources[1]) >= 1

---------------------------------------------------------------------------
(* C10: every driver handle the shader created is released exactly once:   *)
(* never more releases than creations, at most one shader object and one   *)
(* program object per shader, a handle is held exactly while its object is *)
(* created and not released, and after the destructor, or after the        *)
(* constructor raised, nothing is left unreleased.                         *)

C10_HandlesReleasedOnce ==
    /\ gl.shadersDeleted <= gl.shadersCreated
    /\ gl.programsDeleted <= gl.programsCreated
    /\ gl.shadersCreated = (IF Constructed THEN 1 ELSE 0)
    /\ gl.programsCreated <= 1
    /\ shader.m_GLShaderObj # 0 <=> gl.shadersCreated > gl.shadersDeleted
    /\ (shader.m_Builder /\ builder.m_Program # 0)
           <=> gl.programsCreated > gl.programsDeleted
    /\ pc \in {"destroyed", "thrown"} =>
          /\ gl.shadersDeleted = gl.shadersCreated
          /\ gl.programsDeleted = gl.programsCreated

\* Destroyed while the link was in flight: both handles released once.
C10_Witness ==
    /\ pc = "destroyed"
    /\ builder.m_State = "Linking"
    /\ ~gl.linkComplete
    /\ gl.shadersCreated = 1 /\ gl.shadersDeleted = 1
    /\ gl.programsCreated = 1 /\ gl.programsDeleted = 1

---------------------------------------------------------------------------
(* C11: the call that moves the builder to Failed, after a compile or a    *)
(* link failure, releases the shader object in that same call, so that     *)
(* between calls the builder is never in Failed with the handle held; a    *)
(* GetStatus() call that does not end in Failed (and raises nothing)       *)
(* issues no glDeleteShader and leaves the handle held, in particular on   *)
(* the path to Complete.                                                   *)

C11_HandleReleasedWithFailed ==
    [][ /\ builder'.m_State = "Failed" => shader'.m_GLShaderObj = 0
        /\ (builder.m_State # "Failed" /\ builder'.m_State = "Failed") =>
              /\ StatusCallStep
              /\ Last(hist'.path) = "Failed"
              /\ "glDeleteShader" \in Range(hist'.ops)
              /\ gl'.shadersDeleted = gl.shadersDeleted + 1
        /\ (StatusCallStep /\ ci.pDeviceGL /\ ~hist'.raised
              /\ builder'.m_State # "Failed") =>
              /\ "glDeleteShader" \notin Range(hist'.ops)
              /\ shader'.m_GLShaderObj # 0
              /\ gl'.shadersDeleted = 0
      ]_vars

\* The call that found the link failed released the shader object.
C11_Witness ==
    /\ hist.call = "GetStatus"
    /\ hist.path = <<"Linking", "Failed">>
    /\ "glDeleteShader" \in Range(hist.ops)
    /\ shader.m_GLShaderObj = 0
    /\ gl.shadersDeleted = 1

---------------------------------------------------------------------------
(* C12: at most one program object is created for a shader over its whole  *)
(* lifetime; it is created only by a call that has the builder in Linking, *)
(* never while the builder is in Default or Compiling; a poll of Linking   *)
(* that finds a program creates and links no other; and once GetStatus()   *)
(* has returned READY or FAILED the program object no longer exists.       *)

C12_OneTransientProgram ==
    [][ /\ gl'.programsCreated <= 1
        /\ gl'.programsCreated # gl.programsCreated =>
              /\ StatusCallStep
              /\ "Linking" \in Range(hist'.path)
              /\ builder'.m_State \in {"Linking", "Complete", "Failed"}
        /\ builder'.m_State \in {"Default", "Compiling"} =>
              gl'.programsCreated = 0 /\ builder'.m_Program = 0
        /\ (StatusCallStep /\ builder.m_State = "Linking" /\ builder.m_Program # 0) =>
              /\ "glCreateProgram" \notin Range(hist'.ops)
              /\ "glLinkProgram" \notin Range(hist'.ops)
              /\ gl'.programsCreated = gl.programsCreated
        /\ hist'.ret \in {"READY", "FAILED"} =>
              /\ builder'.m_Program = 0
              /\ gl'.programsDeleted = gl'.programsCreated
      ]_vars

\* A later poll of Linking found the program of an earlier call and made
\* no other.
C12_Witness ==
    /\ hist.call = "GetStatus"
    /\ hist.path = <<"Linking">>
    /\ "glCreateProgram" \notin Range(hist.ops)
    /\ builder.m_Program = 1
    /\ gl.programsCreated = 1 /\ gl.programsDeleted = 0

---------------------------------------------------------------------------
(* C13: the resource queries GetResourceCount(), GetResourceDesc(i) and    *)
(* GetConstantBufferDesc(i) are guarded.  A query made while the builder   *)
(* exists fires the usage check and yields no reflection data: the count   *)
(* is 0, the description is left untouched, the buffer description is      *)
(* null; without a builder the usage check does not fire.  A query made on *)
(* a device without separable programs returns the empty result (count 0,  *)
(* nothing else) and logs one warning, and no check fires on account of    *)
(* the missing feature.  No query changes the shader.                      *)

QueryStep == nqueries' # nqueries /\ pc' = "alive"

UsageFault == "Shader resources are not available"

EmptyResult(call) == IF call = "GetResourceCount" THEN <<0>> ELSE << >>

Warned(log) == Last(log).sev = "WARNING"

C13_QueriesGuarded ==
    [][ (QueryStep /\ ci.pDeviceGL) =>
          /\ shader.m_Builder =>
                /\ UsageFault \in Range(hist'.faults)
                /\ hist'.result = EmptyResult(hist'.call)
          /\ ~shader.m_Builder => UsageFault \notin Range(hist'.faults)
          /\ ~ci.SeparablePrograms =>
                /\ hist'.result = EmptyResult(hist'.call)
                /\ Len(out'.log) = Len(out.log) + 1 /\ Warned(out'.log)
                /\ Range(hist'.faults) \subseteq {UsageFault}
          /\ ci.SeparablePrograms => out'.log = out.log
          /\ shader' = shader /\ builder' = builder /\ gl' = gl
          /\ ~hist'.raised
      ]_vars

\* A description asked for while the compile is in flight, on a device
\* without separable programs: the usage check fired, a warning was logged
\* and the output argument was left untouched.
C13_Witness ==
    /\ hist.call = "GetResourceDesc"
    /\ shader.m_Builder
    /\ builder.m_State = "Compiling"
    /\ ~ci.SeparablePrograms
    /\ hist.faults = <<UsageFault>>
    /\ hist.result = << >>
    /\ out.log # << >> /\ Warned(out.log)

---------------------------------------------------------------------------
(* C14: for a shader that compiled and linked, once GetStatus() has        *)
(* returned READY every GetResourceCount() call returns the same value:    *)
(* the number of resources the reflection of the program gave (0 on a      *)
(* device without separable programs), whatever GetStatus(),               *)
(* GetResourceCount(), GetResourceDesc() and GetConstantBufferDesc() calls *)
(* are made in between; none of these calls changes the resource set.      *)

Ready == ci.pDeviceGL /\ ~shader.m_Builder /\ builder.m_State = "Complete"

ReflectedCount == IF ci.SeparablePrograms THEN Len(drv.Uniforms) ELSE 0

C14_ResourceCountStable ==
    [][ (Ready /\ pc = "alive" /\ pc' = "alive") =>
          /\ hist.ret = "READY"
          /\ shader'.m_pShaderResources = shader.m_pShaderResources
          /\ (QueryStep /\ hist'.call = "GetResourceCount") =>
                hist'.result = <<ReflectedCount>>
          /\ StatusCallStep => hist'.ret = "READY"
      ]_vars

\* The second count asked of a ready shader, after a poll: one resource.
C14_Witness ==
    /\ Ready
    /\ hist.call = "GetResourceCount"
    /\ nqueries = 2
    /\ ncalls >= 1
    /\ hist.result = <<1>>
    /\ hist.faults = << >>

---------------------------------------------------------------------------
(* C15 as stated: a LinkProgram call with IsSeparableProgram = true and a  *)
(* number of shaders other than one is a precondition violation that       *)
(* faults: the check fires and no program is created, attached to or       *)
(* linked from the shaders, neither all of them nor one.                   *)

SeparableWithSeveral ==
    /\ hist.call = "LinkProgram"
    /\ hist.args[2]
    /\ hist.args[1] # 1

C15_SeparableLinkFaults ==
    SeparableWithSeveral =>
        /\ "LinkProgram" \in hist.verify
        /\ "glCreateProgram" \notin Range(hist.ops)
        /\ "glAttachShader" \notin Range(hist.ops)
        /\ "glLinkProgram" \notin Range(hist.ops)
        /\ hist.result = << >>

---------------------------------------------------------------------------
(* C16: shaders created in non-blocking mode whose compile and link the    *)
(* driver finishes, both with success, and which the caller keeps polling  *)
(* in turn: every shader's GetStatus() eventually returns READY, and       *)
(* eventually one pass over the shaders counts all of them READY, so the   *)
(* polling loop ends.                                                      *)

AllReady == \A n \in 1..MaxShaders : Shaders[n].hist.ret = "READY"

C16_PollingLoopTerminates ==
    <>(test.done /\ test.NumShadersReady = MaxShaders /\ AllReady)

\* The loop ended after at least one pass that found a shader not ready.
C16_Witness ==
    /\ pc = "test"
    /\ test.done
    /\ test.Iter >= 1
    /\ AllReady
    /\ \A n \in 1..MaxShaders : Shaders[n].builder.m_CreateAsynchronously

---------------------------------------------------------------------------
(* C17: in non-blocking mode no call waits for the driver.  The queries    *)
(* that would wait for unfinished work are issued only by a call whose     *)
(* completion poll has returned true before them: the compile status and   *)
(* the compile log after the poll of the shader, the link status, the      *)
(* program log and the reflection after the poll of the program; none is   *)
(* issued while the compile or the link it reads is still in flight.       *)

CompileResultOps == {"glGetShaderiv(GL_COMPILE_STATUS)", "glGetShaderInfoLog"}

LinkResultOps == {"glGetProgramiv(GL_LINK_STATUS)", "glGetProgramInfoLog", "LoadUniforms"}

\* Every operation of the set rs in ops comes after an operation named poll.
OnlyAfter(ops, rs, poll) ==
    \A j \in 1..Len(ops) :
        ops[j] \in rs => \E i \in 1..(j - 1) : ops[i] = poll

C17_NoWaitingWhenNonBlocking ==
    [][ (StatusCallStep /\ builder'.m_CreateAsynchronously) =>
          /\ gl'.waits = 0
          /\ OnlyAfter(hist'.ops, CompileResultOps,
                       "glGetShaderiv(GL_COMPLETION_STATUS_KHR)=GL_TRUE")
          /\ OnlyAfter(hist'.ops, LinkResultOps,
                       "glGetProgramiv(GL_COMPLETION_STATUS_KHR)=GL_TRUE")
          /\ Range(hist'.ops) \cap CompileResultOps # {} => gl.compileComplete
          /\ Range(hist'.ops) \cap LinkResultOps # {} => gl.linkComplete
      ]_vars

\* A non-blocking call that read the link result and reflected the program
\* after its poll of the program returned true.
C17_Witness ==
    /\ builder.m_CreateAsynchronously
    /\ hist.call = "GetStatus"
    /\ hist.ops # << >>
    /\ hist.ops[1] = "glGetProgramiv(GL_COMPLETION_STATUS_KHR)=GL_TRUE"
    /\ "glGetProgramiv(GL_LINK_STATUS)" \in Range(hist.ops)
    /\ "LoadUniforms" \in Range(hist.ops)
    /\ gl.waits = 0

---------------------------------------------------------------------------
(* C18 as stated: a Tick() call runs the handler of at most one state; the *)
(* handlers run in the order Default, Compiling, Linking, each at most     *)
(* once in a call; the Default handler is followed by the Compiling        *)
(* handler in the same call; and the one call a blocking builder gets at   *)
(* construction ends in Complete or Failed.                                *)

HandlerOrders ==
    {<< >>, <<"Default", "Compiling">>, <<"Default", "Compiling", "Linking">>,
     <<"Compiling">>, <<"Compiling", "Linking">>, <<"Linking">>}

C18_Original ==
    /\ Len(hist.handlers) <= 1
    /\ hist.handlers \in HandlerOrders
    /\ (Constructed /\ Blocking) => builder.m_State \in Terminal

\* The states of the path whose handler the builder has.
Handled(path) == SelectSeq(path, LAMBDA s : s \notin Terminal)

(* C18 as amended: a Tick() call runs the handler of every state the       *)
(* builder is in during the call, the state it starts in and each state    *)
(* freshly reached: up to three handlers, in the order Default, Compiling, *)
(* Linking, each at most once; the Default handler is always followed by   *)
(* the Compiling handler in the same call.  So the one call a blocking     *)
(* builder gets at construction runs all three handlers and ends in        *)
(* Complete when compile and link succeed; when one of them fails that     *)
(* call raises out of the handler that found the failure.                  *)

C18_HandlersCascade ==
    /\ hist.handlers \in HandlerOrders
    /\ (hist.call \in {"ShaderGLImpl", "GetStatus"} /\ ci.pDeviceGL) =>
          hist.handlers = Handled(hist.path)
    /\ (Constructed /\ Blocking /\ hist.call = "ShaderGLImpl") =>
          IF BlockingSucceeds
          THEN /\ hist.handlers = <<"Default", "Compiling", "Linking">>
               /\ builder.m_State = "Complete"
          ELSE /\ hist.raised
               /\ Last(hist.handlers) = builder.m_State
               /\ builder.m_State = (IF drv.Compiled THEN "Linking" ELSE "Compiling")

\* The constructor's call of a blocking builder ran all three handlers.
C18_Witness ==
    /\ hist.call = "ShaderGLImpl"
    /\ Blocking
    /\ hist.handlers = <<"Default", "Compiling", "Linking">>
    /\ builder.m_State = "Complete"
    /\ ~shader.m_Builder

---------------------------------------------------------------------------
(* C19: on a device without separable programs, in both modes, no program  *)
(* object is created, no link is issued, no link completion is polled, no  *)
(* link result is read and nothing is reflected; the builder is never left *)
(* in Linking; and the call that reads a good compile result goes through  *)
(* Linking to Complete and returns READY.                                  *)

LinkPolls ==
    {"glGetProgramiv(GL_COMPLETION_STATUS_KHR)=GL_TRUE",
     "glGetProgramiv(GL_COMPLETION_STATUS_KHR)=GL_FALSE"}

ProgramOps == LinkPolls \cup LinkResultOps \cup {"glCreateProgram", "glLinkProgram"}

C19_NoSeparableProgramsNoLink ==
    (Constructed /\ ~ci.SeparablePrograms) =>
        /\ gl.programsCreated = 0
        /\ gl.linkSubmits = 0
        /\ gl.linkChecks = 0
        /\ gl.reflects = 0
        /\ Range(hist.ops) \cap ProgramOps = {}
        /\ shader.m_pShaderResources = << >>
        /\ builder.m_State # "Linking"
        /\ (gl.compileChecks > 0 /\ drv.Compiled) =>
              /\ builder.m_State = "Complete"
              /\ ~hist.raised
              /\ hist.ret = "READY"
        /\ "glGetShaderiv(GL_COMPILE_STATUS)" \in Range(hist.ops) =>
              \/ ~drv.Compiled
              \/ /\ Len(hist.path) >= 3
                 /\ SubSeq(hist.path, Len(hist.path) - 2, Len(hist.path))
                       = <<"Compiling", "Linking", "Complete">>

\* A non-blocking builder on a device without separable programs: the poll
\* that read the good compile result went through Linking to Complete.
C19_Witness ==
    /\ ~ci.SeparablePrograms
    /\ builder.m_CreateAsynchronously
    /\ hist.call = "GetStatus"
    /\ hist.path = <<"Compiling", "Linking", "Complete">>
    /\ hist.handlers = <<"Compiling", "Linking">>
    /\ hist.ret = "READY"
    /\ gl.programsCreated = 0

---------------------------------------------------------------------------
(* C20: the program's resources are loaded only by a call that has read    *)
(* the link result of a program whose link is complete and found it good:  *)
(* never after a failed compile or a failed link, never while the link is  *)
(* in flight (in non-blocking mode only after the completion poll of the   *)
(* program returned true), and after the link status was read.  On a       *)
(* device with separable programs the call that moves the builder to       *)
(* Complete has loaded them before; they are loaded at most once.          *)

Reflects == gl'.reflects # gl.reflects

C20_ReflectionAfterGoodLink ==
    [][ /\ Reflects =>
              /\ StatusCallStep
              /\ ci.SeparablePrograms
              /\ drv.Compiled /\ drv.Linked
              /\ gl'.reflects = 1
              /\ gl'.linkSubmits = 1 /\ gl'.linkChecks = 1 /\ gl'.linkComplete
              /\ builder'.m_CreateAsynchronously => gl.linkComplete
              /\ OnlyAfter(hist'.ops, {"LoadUniforms"}, "glGetProgramiv(GL_LINK_STATUS)")
              /\ builder'.m_CreateAsynchronously =>
                    OnlyAfter(hist'.ops, {"LoadUniforms"},
                              "glGetProgramiv(GL_COMPLETION_STATUS_KHR)=GL_TRUE")
              /\ Last(hist'.path) = "Complete"
        /\ gl'.reflects > 0 => drv.Compiled /\ drv.Linked /\ gl'.linkChecks = 1
        /\ (ci.SeparablePrograms /\ builder.m_State # "Complete"
              /\ builder'.m_State = "Complete") =>
              Reflects /\ "LoadUniforms" \in Range(hist'.ops)
      ]_vars

\* The constructor of a blocking shader linked the program, read the link
\* result and loaded the resources before it set Complete.
C20_Witness ==
    /\ hist.call = "ShaderGLImpl"
    /\ Blocking
    /\ ci.SeparablePrograms
    /\ gl.reflects = 1
    /\ "LoadUniforms" \in Range(hist.ops)
    /\ builder.m_State = "Complete"

---------------------------------------------------------------------------
(* C21: over any sequence of GetStatus() calls, the one of the constructor *)
(* included, Tick is entered only with the builder in Default, Compiling   *)
(* or Linking, so the VERIFY at its head never fires: a tick that returns  *)
(* returns true exactly when it leaves the builder in Complete or Failed,  *)
(* the call in which it returns true discards the builder, and a call on a *)
(* shader without builder makes no tick.                                   *)

\* The call ticked the builder: hist.path starts with the state it found.
Ticked(h) == h.path # << >>

C21_TickNeverOnFinishedBuilder ==
    [][ StatusCallStep =>
          /\ "Tick" \notin hist'.verify
          /\ Ticked(hist') <=> (IF pc = "new" THEN ci.pDeviceGL ELSE shader.m_Builder)
          /\ Ticked(hist') =>
                /\ hist'.path[1] \notin Terminal
                /\ ~hist'.raised =>
                      /\ hist'.rv <=> builder'.m_State \in Terminal
                      /\ hist'.rv <=> ~shader'.m_Builder
          /\ ~Ticked(hist') => hist'.handlers = << >> /\ hist'.ops = << >>
          /\ shader'.m_Builder => builder'.m_State \notin Terminal
      ]_vars

\* A failed non-blocking shader polled again after the call that discarded
\* its builder: no tick is made, no VERIFY has fired.
C21_Witness ==
    /\ hist.call = "GetStatus"
    /\ builder.m_CreateAsynchronously
    /\ builder.m_State = "Failed"
    /\ ~shader.m_Builder
    /\ ~Ticked(hist)
    /\ hist.ret = "FAILED"
    /\ hist.verify = {}

---------------------------------------------------------------------------
(* C22: once a GetStatus() call has returned READY or FAILED, every later  *)
(* GetStatus() call returns the same value, makes no GL call (no compile,  *)
(* poll, link, result check or release), runs no handler and leaves the    *)
(* shader, its builder's last state, the driver objects and the output     *)
(* as they were; no builder exists from then on.                           *)

\* The last status a GetStatus() call returned is final.
Settled == hist.ret \in {"READY", "FAILED"}

C22_FinalStatusIsStable ==
    [][ /\ (Settled /\ ncalls' # ncalls) =>
              /\ ~hist'.raised
              /\ hist'.ret = hist.ret
              /\ hist'.ops = << >>
              /\ hist'.handlers = << >>
              /\ hist'.path = << >>
              /\ shader' = shader
              /\ builder' = builder
              /\ gl' = gl
              /\ out' = out
        /\ (Settled /\ pc = "alive") => ~shader.m_Builder
        /\ (Settled /\ pc' = "alive") => hist'.ret = hist.ret
      ]_vars

\* A blocking shader, READY when its constructor returned, was polled by
\* the user more than once.
C22_Witness ==
    /\ hist.call = "GetStatus"
    /\ Blocking
    /\ ci.pDeviceGL
    /\ ncalls >= 2
    /\ hist.ret = "READY"
    /\ hist.ops = << >>
    /\ shader.m_GLShaderObj # 0

---------------------------------------------------------------------------
(* C23 as stated: over any sequence of GetStatus() calls on one shader the *)
(* compile is submitted exactly once, the compile result is read at most   *)
(* once, the link is submitted at most once and only after a good compile  *)
(* result, and the link result is read at most once.                       *)

AtMostOnce ==
    /\ gl.compileChecks <= 1
    /\ gl.linkSubmits <= 1
    /\ gl.linkChecks <= 1
    /\ gl.linkSubmits = 1 => gl.compileChecks = 1 /\ drv.Compiled
    /\ gl.linkChecks = 1 => gl.linkSubmits = 1

C23_Original ==
    pc # "new" => gl.compileSubmits = 1 /\ AtMostOnce

(* C23 as amended: the same for a shader constructed with a device (one    *)
(* made without a device submits nothing); the compile is submitted by the *)
(* constructor's call, in the Default handler, before any poll or read of  *)
(* the compile result; the link is submitted by the call that read the     *)
(* good compile result, after that read; and the output blob is written    *)
(* at most once, by the call that reads the compile result.                *)

CompileReads ==
    CompileResultOps \cup {"glGetShaderiv(GL_COMPLETION_STATUS_KHR)=GL_TRUE",
                           "glGetShaderiv(GL_COMPLETION_STATUS_KHR)=GL_FALSE"}

C23_EachRequestOnce ==
    [][ /\ pc' # "new" =>
              /\ gl'.compileSubmits = (IF ci.pDeviceGL THEN 1 ELSE 0)
              /\ AtMostOnce'
        /\ gl'.compileSubmits # gl.compileSubmits =>
              /\ pc = "new"
              /\ hist'.handlers[1] = "Default"
              /\ OnlyAfter(hist'.ops, CompileReads, "glCompileShader")
        /\ gl'.compileChecks # gl.compileChecks => StatusCallStep
        /\ gl'.linkSubmits # gl.linkSubmits =>
              /\ StatusCallStep
              /\ OnlyAfter(hist'.ops, {"glLinkProgram"},
                           "glGetShaderiv(GL_COMPILE_STATUS)")
        /\ gl'.linkChecks # gl.linkChecks =>
              /\ StatusCallStep
              /\ \/ "glLinkProgram" \notin Range(hist'.ops)
                 \/ OnlyAfter(hist'.ops, {"glGetProgramiv(GL_LINK_STATUS)"},
                              "glLinkProgram")
        /\ out'.pOutputDataBlob # out.pOutputDataBlob =>
              /\ out.pOutputDataBlob = << >>
              /\ gl.compileChecks = 0 /\ gl'.compileChecks = 1
              /\ "glGetShaderInfoLog" \in Range(hist'.ops)
      ]_vars

\* A non-blocking shader whose compile gave a log: a poll made by the user
\* after construction read the result, wrote the output blob and submitted
\* the link.
C23_Witness ==
    /\ hist.call = "GetStatus"
    /\ builder.m_CreateAsynchronously
    /\ ci.ppCompilerOutput
    /\ out.pOutputDataBlob # << >>
    /\ "glGetShaderInfoLog" \in Range(hist.ops)
    /\ "glLinkProgram" \in Range(hist.ops)
    /\ gl.compileSubmits = 1
    /\ gl.compileChecks = 1
    /\ gl.linkSubmits = 1

---------------------------------------------------------------------------
(* C24: a shader constructed without a device has no builder and no shader *)
(* handle; its constructor returns without a tick and without raising; no  *)
(* GL object is ever created and nothing is ever submitted, polled or read *)
(* for it; every GetStatus() call on it returns FAILED, while no compile   *)
(* or link failure was ever reported.                                      *)

NoDriverWork ==
    /\ gl.shadersCreated = 0 /\ gl.programsCreated = 0
    /\ gl.compileSubmits = 0 /\ gl.compileChecks = 0
    /\ gl.linkSubmits = 0 /\ gl.linkChecks = 0
    /\ gl.reflects = 0 /\ gl.waits = 0

NoFailureReported ==
    /\ \A i \in 1..Len(out.log) : out.log[i].sev # "ERROR"
    /\ out.pOutputDataBlob = << >>

C24_NullDeviceShaderFailed ==
    (~ci.pDeviceGL /\ pc # "new") =>
        /\ pc # "thrown"
        /\ ~shader.m_Builder
        /\ shader.m_GLShaderObj = 0
        /\ builder.m_State = "Default"
        /\ NoDriverWork
        /\ NoFailureReported
        /\ hist.handlers = << >> /\ hist.path = << >>
        /\ hist.verify = {}
        /\ hist.call \in {"ShaderGLImpl", "GetStatus"} => hist.ops = << >>
        /\ hist.ret = (IF ncalls = 0 THEN "none" ELSE "FAILED")

\* A shader made without a device, polled twice: FAILED, nothing done.
C24_Witness ==
    /\ ~ci.pDeviceGL
    /\ hist.call = "GetStatus"
    /\ ncalls = 2
    /\ nqueries = 0
    /\ hist.ret = "FAILED"
    /\ shader.m_GLSLSourceString # << >>
    /\ gl.compileSubmits = 0

====
